---- MODULE Spec2Model ----
(***************************************************************************)
(* Model of the NHANES biomarker explorer.  Two versions of the program    *)
(* are modelled: src/apptest.py (the extended variant: age filter, text    *)
(* summary with Welch test and Cohen's d) and src/ShinyApp/apptest.py (the *)
(* basic variant: regression plot and density plot).  The module-level     *)
(* load code is one action per file, and every render function is one      *)
(* action that reads the inputs, runs to completion and leaves its result  *)
(* in `out`.                                                               *)
(***************************************************************************)
EXTENDS Integers, Sequences, FiniteSets, TLC

VARIABLES variant, phase, nhanes_dict, csv_header, nhanes_biomarkers,
          nhanes_labels, label_mapping, out

vars == <<variant, phase, nhanes_dict, csv_header, nhanes_biomarkers,
          nhanes_labels, label_mapping, out>>

(***************************************************************************)
(* Bounds of the model.                                                    *)
(***************************************************************************)
\* rows of the tables whose age, gender and label all vary
MaxFilterRows == 2
\* rows per disease-status group of the tables whose biomarker values vary
MaxGroupRows == 2
\* rows of each table when the subject identifiers vary
MaxJoinRows == 2
\* subject identifiers 1..MaxId when the subject identifiers vary
MaxId == 2
\* entries of the variable dictionary when the dictionary varies
MaxDict == 2

(***************************************************************************)
(* Values.                                                                 *)
(***************************************************************************)
\* a missing cell of a numeric column
NaN == -1

Range(s) == {s[i] : i \in DOMAIN s}

SeqsUpTo(S, n) == UNION {[1..k -> S] : k \in 0..n}

RECURSIVE SumSeq(_)
SumSeq(s) == IF s = <<>> THEN 0 ELSE Head(s) + SumSeq(Tail(s))

RECURSIVE SumSq(_)
SumSq(s) == IF s = <<>> THEN 0 ELSE Head(s) * Head(s) + SumSq(Tail(s))

RECURSIVE Flatten(_)
Flatten(ss) == IF ss = <<>> THEN <<>> ELSE Head(ss) \o Flatten(Tail(ss))

Sign(n) == IF n > 0 THEN 1 ELSE IF n < 0 THEN -1 ELSE 0

(***************************************************************************)
(* Floating point numbers as far as the program uses them: an exact        *)
(* rational num/den with den > 0, or nan, or a signed infinity.            *)
(***************************************************************************)
FNum(n, d) == [k |-> "num", num |-> n, den |-> d]
FNan == [k |-> "nan", num |-> 0, den |-> 1]
FInf(s) == [k |-> "inf", num |-> s, den |-> 1]

\* np.sqrt(a), kept exact: the value stands for sqrt(num / den)
FSqrt(a) ==
    IF a.k # "num" \/ a.num < 0 THEN FNan
    ELSE [k |-> "sqrt", num |-> a.num, den |-> a.den]

\* a / b on numpy floats: 0/0 is nan, x/0 is a signed infinity, nothing
\* raises.  A quotient by a square root is kept as its signed square: the
\* value stands for sign(num) * sqrt(|num| / den).
FDiv(a, b) ==
    IF a.k # "num" \/ b.k \notin {"num", "sqrt"} THEN FNan
    ELSE IF b.num = 0 THEN (IF a.num = 0 THEN FNan ELSE FInf(Sign(a.num)))
    ELSE IF b.k = "sqrt"
    THEN [k |-> "ssq", num |-> Sign(a.num) * a.num * a.num * b.den,
          den |-> a.den * a.den * b.num]
    ELSE FNum(a.num * b.den * Sign(b.num), a.den * b.num * Sign(b.num))

FAdd(a, b) ==
    IF a.k # "num" \/ b.k # "num" THEN FNan
    ELSE FNum(a.num * b.den + b.num * a.den, a.den * b.den)

FSub(a, b) ==
    IF a.k # "num" \/ b.k # "num" THEN FNan
    ELSE FNum(a.num * b.den - b.num * a.den, a.den * b.den)

FMul(a, b) ==
    IF a.k # "num" \/ b.k # "num" THEN FNan
    ELSE FNum(a.num * b.num, a.den * b.den)

\* a > 0: any comparison with nan is False
FGtZero(a) == a.k # "nan" /\ a.num > 0

(***************************************************************************)
(* Column names.                                                           *)
(***************************************************************************)
FullHeader == <<"SEQN", "LBXTC", "RIAGENDR", "RIDAGEYR">>

Description ==
    [c \in Range(FullHeader) |->
        CASE c = "SEQN" -> "Respondent sequence number"
          [] c = "LBXTC" -> "Total Cholesterol"
          [] c = "RIAGENDR" -> "Gender of the participant"
          [] c = "RIDAGEYR" -> "Age in years"]

FullDict == [i \in DOMAIN FullHeader |->
                [name |-> FullHeader[i], desc |-> Description[FullHeader[i]]]]

\* index of a column, 0 when the frame has no such column
ColIndex(df, name) ==
    IF name \in Range(df.columns)
    THEN CHOOSE i \in DOMAIN df.columns :
            df.columns[i] = name /\ \A j \in 1..(i - 1) : df.columns[j] # name
    ELSE 0

HasColumns(df, names) == names \subseteq Range(df.columns)

(***************************************************************************)
(* The three tables as read from disk.  A frame is its column names and    *)
(* its rows, every row a tuple aligned with the columns.                   *)
(***************************************************************************)
Ages == {25, 30, 80}
Genders == {1, 2}
Indicators == {0, 1}
Values == {NaN, 1, 2}

LabelHeader == <<"id_client", "HeartDisease">>

MarkerRow(id, v, g, a) == <<id, v, g, a>>

Frame(cols, rows) == [columns |-> cols, rows |-> rows]

NonDecreasing(s) == \A i \in 1..(Len(s) - 1) : s[i] <= s[i + 1]

\* SEQN 1..n, one label row per subject; age, gender and label vary.  The
\* handlers treat the rows alike, so the rows are listed in one order only.
FilterTables ==
    UNION {
        { [b |-> Frame(FullHeader, [i \in 1..n |-> MarkerRow(i, 1, g[i], a[i])]),
           l |-> Frame(LabelHeader, [i \in 1..n |-> <<i, h[i]>>])] :
          <<g, a, h>> \in
            { t \in [1..n -> Genders] \X [1..n -> Ages] \X [1..n -> Indicators] :
                NonDecreasing([i \in 1..n |-> 4 * t[2][i] + 2 * t[1][i] + t[3][i]]) } }
        : n \in 0..MaxFilterRows }

\* Disease subjects first, then No Disease subjects; the biomarker values
\* vary, the values of a group listed in one order only
GroupValues == {s \in SeqsUpTo(Values, MaxGroupRows) : NonDecreasing(s)}

GroupTables ==
    UNION {
        { [b |-> Frame(FullHeader,
                       [i \in 1..(Len(d) + Len(h)) |->
                          MarkerRow(i, (d \o h)[i], 1 + (i % 2),
                                    IF i % 2 = 1 THEN 30 ELSE 25)]),
           l |-> Frame(LabelHeader,
                       [i \in 1..(Len(d) + Len(h)) |->
                          <<i, IF i <= Len(d) THEN 1 ELSE 0>>])] :
          h \in GroupValues }
        : d \in GroupValues }

\* the subject identifiers of both tables vary, unique or not; the label
\* table is listed by identifier
JoinTables ==
    UNION {
        { [b |-> Frame(FullHeader, [i \in DOMAIN bs |-> MarkerRow(bs[i], 1, 1, 30)]),
           l |-> Frame(LabelHeader, [i \in DOMAIN ls |-> <<ls[i], ls[i] % 2>>])] :
          ls \in {s \in SeqsUpTo(1..MaxId, MaxJoinRows) : NonDecreasing(s)} }
        : bs \in SeqsUpTo(1..MaxId, MaxJoinRows) }

DataTables == FilterTables \cup GroupTables \cup JoinTables

\* the columns of s whose names are in keep, in order
RECURSIVE KeepColumns(_, _)
KeepColumns(s, keep) ==
    IF s = <<>> THEN <<>>
    ELSE (IF Head(s) \in keep THEN <<Head(s)>> ELSE <<>>) \o KeepColumns(Tail(s), keep)

\* df[[names]]: the named columns, in the order asked for
SelectCols(df, names) ==
    Frame(names,
          [r \in DOMAIN df.rows |->
              [j \in DOMAIN names |-> df.rows[r][ColIndex(df, names[j])]]])

\* a dictionary with an entry per column and a second description of LBXTC
DictEntries ==
    Range(FullDict) \cup {[name |-> "LBXTC", desc |-> "Cholesterol, total (mg/dL)"]}

\* the dictionary and the presence of the gender and age columns vary
SchemaHeaders ==
    { KeepColumns(FullHeader, {"SEQN", "LBXTC"} \cup opt) :
        opt \in SUBSET {"RIAGENDR", "RIDAGEYR"} }

OneSubject ==
    [b |-> Frame(FullHeader, <<MarkerRow(1, 2, 2, 30)>>),
     l |-> Frame(LabelHeader, <<<<1, 1>>>>)]

NoInput ==
    [biomarker_x |-> "", biomarker_y |-> "", gender_filter |-> "All",
     age_group_filter |-> <<"All Ages">>, filter_heart_disease |-> FALSE]

NoOutput ==
    [handler |-> "none", input |-> NoInput, status |-> "none", steps |-> <<>>,
     merged_data |-> <<>>, aged |-> <<>>, cohort |-> <<>>, curves |-> <<>>,
     stats |-> <<>>, group_stats |-> <<>>, comparison |-> "none",
     cohen_d |-> FNan]

InitData ==
    /\ nhanes_dict = FullDict
    /\ csv_header = FullHeader
    /\ \E t \in DataTables :
          /\ nhanes_biomarkers = t.b
          /\ nhanes_labels = t.l

InitSchema ==
    /\ nhanes_dict \in SeqsUpTo(DictEntries, MaxDict)
    /\ csv_header \in SchemaHeaders
    /\ nhanes_biomarkers = SelectCols(OneSubject.b, csv_header)
    /\ nhanes_labels = OneSubject.l

Init ==
    /\ variant \in {"extended", "basic"}
    /\ phase = "boot"
    /\ label_mapping = <<>>
    /\ out = NoOutput
    /\ (InitData \/ InitSchema)

(***************************************************************************)
(* Load time: the rename of the biomarker columns.                         *)
(***************************************************************************)
\* dict(zip(names, descriptions)): the last entry of a name wins
DictZip(entries) ==
    [c \in {entries[i].name : i \in DOMAIN entries} |->
        entries[CHOOSE i \in DOMAIN entries :
                   /\ entries[i].name = c
                   /\ \A j \in DOMAIN entries : entries[j].name = c => j <= i].desc]

\* mapping.pop(key, None)
Pop(mapping, key) == [c \in DOMAIN mapping \ {key} |-> mapping[c]]

RECURSIVE PopAll(_, _)
PopAll(mapping, keys) ==
    IF keys = <<>> THEN mapping ELSE PopAll(Pop(mapping, Head(keys)), Tail(keys))

\* DataFrame.rename(columns=mapping)
Rename(columns, mapping) ==
    [i \in DOMAIN columns |->
        IF columns[i] \in DOMAIN mapping THEN mapping[columns[i]] ELSE columns[i]]

\* only the subject identifier popped
OnlySeqnProtected == <<"SEQN">>

\* the keys popped from the mapping, per file
ProtectedKeys == <<"SEQN", "RIAGENDR", "RIDAGEYR">>
ShinyApp_ProtectedKeys == <<"SEQN", "RIAGENDR">>

LoadWith(keys) ==
    /\ phase = "boot"
    /\ label_mapping' = PopAll(DictZip(nhanes_dict), keys)
    /\ nhanes_biomarkers' =
          [nhanes_biomarkers EXCEPT !.columns = Rename(@, label_mapping')]
    /\ phase' = IF "RIAGENDR" \notin Range(nhanes_biomarkers'.columns)
                THEN "failed" ELSE "ready"
    /\ UNCHANGED <<variant, nhanes_dict, csv_header, nhanes_labels, out>>

\* src/apptest.py, module level
label_mapping_load ==
    /\ variant = "extended"
    /\ LoadWith(ProtectedKeys)

\* src/ShinyApp/apptest.py, module level
ShinyApp_label_mapping_load ==
    /\ variant = "basic"
    /\ LoadWith(ShinyApp_ProtectedKeys)

(***************************************************************************)
(* Data frame operations the render functions use.                         *)
(***************************************************************************)
\* the merge with the keys left out: every pair of rows
MergeCross(left, right, left_on, right_on) ==
    Frame(left.columns \o right.columns,
          Flatten([i \in DOMAIN left.rows |->
                     [j \in DOMAIN right.rows |-> left.rows[i] \o right.rows[j]]]))

\* pd.merge(left, right, left_on=..., right_on=...): inner join, left order
Merge(left, right, left_on, right_on) ==
    LET li == ColIndex(left, left_on)
        ri == ColIndex(right, right_on)
        Matches(lrow) ==
            LET hit == SelectSeq(right.rows, LAMBDA rrow : rrow[ri] = lrow[li])
            IN [j \in DOMAIN hit |-> lrow \o hit[j]]
    IN Frame(left.columns \o right.columns,
             Flatten([i \in DOMAIN left.rows |-> Matches(left.rows[i])]))

\* df[mask], the mask true of the rows whose value of col is in keep
Filter(df, col, keep) ==
    LET c == ColIndex(df, col)
    IN [df EXCEPT !.rows = SelectSeq(@, LAMBDA row : row[c] \in keep)]

\* the rows of a frame as records keyed by column name
Records(df) ==
    [r \in DOMAIN df.rows |->
        [c \in Range(df.columns) |-> df.rows[r][ColIndex(df, c)]]]

\* df[col] as a sequence
Column(df, col) == [r \in DOMAIN df.rows |-> df.rows[r][ColIndex(df, col)]]

\* Series.dropna()
DropNa(series) == SelectSeq(series, LAMBDA v : v # NaN)

(***************************************************************************)
(* Inputs.  A choice of the age select is the sequence of the pieces of    *)
(* its text, "ndash" standing for the en dash the choices are written with.*)
(***************************************************************************)
GenderChoices == {"All", "Male", "Female"}

AgeChoices ==
    {<<"All Ages">>} \cup
    {<<lo, "ndash", hi>> : <<lo, hi>> \in
        {<<"20", "30">>, <<"30", "40">>, <<"40", "50">>,
         <<"50", "60">>, <<"60", "70">>, <<"70", "80">>}}

\* choices=list(nhanes_biomarkers.columns[1:]), structural columns left out
BiomarkerChoices(structural) ==
    {nhanes_biomarkers.columns[i] : i \in 2..Len(nhanes_biomarkers.columns)}
        \ structural

\* str.replace(old, new)
Replace(text, old, new) ==
    [i \in DOMAIN text |-> IF text[i] = old THEN new ELSE text[i]]

age_bounds ==
    (<<"20", "-", "30">> :> <<20, 30>>) @@ (<<"30", "-", "40">> :> <<30, 40>>) @@
    (<<"40", "-", "50">> :> <<40, 50>>) @@ (<<"50", "-", "60">> :> <<50, 60>>) @@
    (<<"60", "-", "70">> :> <<60, 70>>) @@ (<<"70", "-", "80">> :> <<70, 80>>)

(***************************************************************************)
(* The filters.                                                            *)
(***************************************************************************)
\* the text of the age choice with the en dash replaced by a hyphen
NormalizeAge(choice) == Replace(choice, "ndash", "-")

\* the bin closed at the top
InAgeBoundsInclusive(age, low, high) == age >= low /\ age <= high

\* (df["RIDAGEYR"] >= low) & (df["RIDAGEYR"] < high)
InAgeBounds(age, low, high) == age >= low /\ age < high

AgeFilter(df, choice) ==
    LET age_filter == NormalizeAge(choice)
    IN IF age_filter # <<"All Ages">>
       THEN LET low == age_bounds[age_filter][1]
                high == age_bounds[age_filter][2]
            IN Filter(df, "RIDAGEYR",
                      {age \in Range(Column(df, "RIDAGEYR")) :
                          InAgeBounds(age, low, high)})
       ELSE df

\* the disease filter left out
DiseaseFilterOff(df, filter_heart_disease) == df

DiseaseFilter(df, filter_heart_disease) ==
    IF filter_heart_disease
    THEN Filter(df, "Heart Disease", {1})
    ELSE df

\* the two gender codes exchanged
GenderFilterSwapped(df, gender_filter) ==
    IF gender_filter = "Male" THEN Filter(df, "Gender", {2})
    ELSE IF gender_filter = "Female" THEN Filter(df, "Gender", {1})
    ELSE df

GenderFilter(df, gender_filter) ==
    IF gender_filter = "Male" THEN Filter(df, "Gender", {1})
    ELSE IF gender_filter = "Female" THEN Filter(df, "Gender", {2})
    ELSE df

\* the columns merged and renamed to the names the rest of a handler uses
MergedData(marker_columns, renames) ==
    LET merged == Merge(SelectCols(nhanes_biomarkers, marker_columns),
                        SelectCols(nhanes_labels, LabelHeader),
                        "SEQN", "id_client")
    IN [merged EXCEPT !.columns = Rename(@, renames)]

\* the (condition, label) pairs of the density plot, in plotting order
KdeGroups == <<[condition |-> 1, label |-> "Disease"],
               [condition |-> 0, label |-> "No Disease"]>>

\* the series handed to sns.kdeplot, one per group
Curves(df) ==
    [i \in DOMAIN KdeGroups |->
        [label |-> KdeGroups[i].label,
         series |-> Column(Filter(df, "Heart Disease",
                                  {KdeGroups[i].condition}),
                           "Biomarker X")]]

(***************************************************************************)
(* kde_plot of src/apptest.py.                                             *)
(***************************************************************************)
kde_plot ==
    /\ variant = "extended"
    /\ phase = "ready"
    /\ out.handler = "none"
    /\ \E x \in BiomarkerChoices({"SEQN", "RIAGENDR", "RIDAGEYR"}),
          gender_filter \in GenderChoices,
          age_choice \in AgeChoices,
          filter_heart_disease \in BOOLEAN :
        LET input == [biomarker_x |-> x, biomarker_y |-> "",
                      gender_filter |-> gender_filter,
                      age_group_filter |-> age_choice,
                      filter_heart_disease |-> filter_heart_disease]
            needed == <<"SEQN", x, "RIAGENDR", "RIDAGEYR">>
        IN IF ~HasColumns(nhanes_biomarkers, Range(needed))
           THEN out' = [NoOutput EXCEPT !.handler = "kde_plot", !.input = input,
                                        !.status = "KeyError",
                                        !.steps = <<"merge">>]
           ELSE IF NormalizeAge(age_choice) # <<"All Ages">>
                   /\ NormalizeAge(age_choice) \notin DOMAIN age_bounds
           THEN out' = [NoOutput EXCEPT !.handler = "kde_plot", !.input = input,
                                        !.status = "KeyError",
                                        !.steps = <<"merge", "age_filter">>]
           ELSE
           \E merged_data \in
                 {MergedData(needed,
                             (x :> "Biomarker X") @@ ("HeartDisease" :> "Heart Disease")
                                 @@ ("RIAGENDR" :> "Gender"))} :
           \E aged \in {AgeFilter(merged_data, age_choice)} :
           \E filtered \in {GenderFilter(DiseaseFilter(aged, filter_heart_disease),
                                         gender_filter)} :
              IF aged.rows = <<>>
              THEN out' = [NoOutput EXCEPT
                             !.handler = "kde_plot", !.input = input,
                             !.status = "no_data",
                             !.steps = <<"merge", "age_filter", "message">>,
                             !.merged_data = Records(merged_data),
                             !.aged = Records(aged),
                             !.cohort = Records(aged)]
              ELSE out' = [NoOutput EXCEPT
                             !.handler = "kde_plot", !.input = input,
                             !.status = "plotted",
                             !.steps = <<"merge", "age_filter", "disease_filter",
                                         "gender_filter", "kdeplot", "kdeplot">>,
                             !.merged_data = Records(merged_data),
                             !.aged = Records(aged),
                             !.cohort = Records(filtered),
                             !.curves = Curves(filtered)]
    /\ UNCHANGED <<variant, phase, nhanes_dict, csv_header, nhanes_biomarkers,
                   nhanes_labels, label_mapping>>

(***************************************************************************)
(* kde_plot of src/ShinyApp/apptest.py: no age filter, no emptiness check. *)
(***************************************************************************)
ShinyApp_kde_plot ==
    /\ variant = "basic"
    /\ phase = "ready"
    /\ out.handler = "none"
    /\ \E x \in BiomarkerChoices({"SEQN", "RIAGENDR"}),
          gender_filter \in GenderChoices,
          filter_heart_disease \in BOOLEAN :
        LET input == [biomarker_x |-> x, biomarker_y |-> "",
                      gender_filter |-> gender_filter,
                      age_group_filter |-> <<"All Ages">>,
                      filter_heart_disease |-> filter_heart_disease]
            needed == <<"SEQN", x, "RIAGENDR">>
        IN IF ~HasColumns(nhanes_biomarkers, Range(needed))
           THEN out' = [NoOutput EXCEPT !.handler = "kde_plot", !.input = input,
                                        !.status = "KeyError",
                                        !.steps = <<"merge">>]
           ELSE
           \E merged_data \in
                 {MergedData(needed,
                              (x :> "Biomarker X") @@ ("HeartDisease" :> "Heart Disease")
                                  @@ ("RIAGENDR" :> "Gender"))} :
           \E filtered \in {GenderFilter(DiseaseFilter(merged_data, filter_heart_disease),
                                        gender_filter)} :
              out' = [NoOutput EXCEPT
                        !.handler = "kde_plot", !.input = input,
                        !.status = "plotted",
                        !.steps = <<"merge", "disease_filter", "gender_filter",
                                    "kdeplot", "kdeplot">>,
                        !.merged_data = Records(merged_data),
                        !.cohort = Records(filtered),
                        !.curves = Curves(filtered)]
    /\ UNCHANGED <<variant, phase, nhanes_dict, csv_header, nhanes_biomarkers,
                   nhanes_labels, label_mapping>>

(***************************************************************************)
(* summary_stats of src/apptest.py.                                        *)
(***************************************************************************)
\* Series.map({1: "Disease", 0: "No Disease"})
HeartDiseaseMap(hd) ==
    IF hd = 1 THEN "Disease" ELSE IF hd = 0 THEN "No Disease" ELSE "nan"

GroupNames == <<"Disease", "No Disease">>

\* Series.mean()
Mean(x) == FDiv(FNum(SumSeq(x), 1), FNum(Len(x), 1))

\* np.var(x, ddof=ddof): the sum of squared deviations over n - ddof
Var(x, ddof) ==
    FDiv(FNum(Len(x) * SumSq(x) - SumSeq(x) * SumSeq(x), Len(x)),
         FNum(Len(x) - ddof, 1))

\* Series.median()
Median(x) ==
    LET sorted == SortSeq(x, LAMBDA u, v : u < v)
        n == Len(x)
    IN IF n % 2 = 1 THEN FNum(sorted[(n + 1) \div 2], 1)
       ELSE FNum(sorted[n \div 2] + sorted[n \div 2 + 1], 2)

SeqMin(x) == CHOOSE v \in Range(x) : \A w \in Range(x) : v <= w
SeqMax(x) == CHOOSE v \in Range(x) : \A w \in Range(x) : v >= w

stats_dict(group_data) ==
    [Count |-> Len(group_data),
     Mean |-> Mean(group_data),
     Median |-> Median(group_data),
     StdDev |-> FSqrt(Var(group_data, 1)),
     Min |-> SeqMin(group_data),
     Max |-> SeqMax(group_data)]

\* the group's series with its missing values kept
group_data_with_missing(df, group) ==
    Column(Filter(df, "Heart Disease", {group}), "Biomarker X")

\* merged_data[merged_data["Heart Disease"] == group]["Biomarker X"].dropna()
group_data(df, group) ==
    DropNa(Column(Filter(df, "Heart Disease", {group}),
                  "Biomarker X"))

\* the groups that got past `if group_data.empty: continue`
GroupsPresent(df) ==
    {GroupNames[i] : i \in {j \in DOMAIN GroupNames :
                               group_data(df, GroupNames[j]) # <<>>}}

\* "Disease" in group_stats and "No Disease" in group_stats
BothGroupsExist(group_stats) ==
    "Disease" \in DOMAIN group_stats /\ "No Disease" \in DOMAIN group_stats

pooled_std(x1, x2) ==
    LET n1 == Len(x1)
        n2 == Len(x2)
        s1 == Var(x1, 1)
        s2 == Var(x2, 1)
    IN FSqrt(FDiv(FAdd(FMul(FNum(n1 - 1, 1), s1), FMul(FNum(n2 - 1, 1), s2)),
                  FNum(n1 + n2 - 2, 1)))

\* zero reported where the effect size is undefined
cohen_d_or_zero(x1, x2) ==
    IF FGtZero(pooled_std(x1, x2))
    THEN FDiv(FSub(Mean(x1), Mean(x2)), pooled_std(x1, x2))
    ELSE FNum(0, 1)

cohen_d(x1, x2) ==
    IF FGtZero(pooled_std(x1, x2))
    THEN FDiv(FSub(Mean(x1), Mean(x2)), pooled_std(x1, x2))
    ELSE FNan

summary_stats ==
    /\ variant = "extended"
    /\ phase = "ready"
    /\ out.handler = "none"
    /\ \E x \in BiomarkerChoices({"SEQN", "RIAGENDR", "RIDAGEYR"}),
          gender_filter \in GenderChoices,
          age_choice \in AgeChoices,
          filter_heart_disease \in BOOLEAN :
        \* the age choice is part of the request, but is not read here
        LET input == [biomarker_x |-> x, biomarker_y |-> "",
                      gender_filter |-> gender_filter,
                      age_group_filter |-> age_choice,
                      filter_heart_disease |-> filter_heart_disease]
            needed == <<"SEQN", x, "RIAGENDR">>
        IN IF ~HasColumns(nhanes_biomarkers, Range(needed))
           THEN out' = [NoOutput EXCEPT !.handler = "summary_stats",
                                        !.input = input,
                                        !.status = "KeyError",
                                        !.steps = <<"merge">>]
           ELSE
           \E merged_data \in
                 {MergedData(needed,
                             (x :> "Biomarker X") @@ ("HeartDisease" :> "Heart Disease")
                                 @@ ("RIAGENDR" :> "Gender"))} :
           \E filtered \in {GenderFilter(DiseaseFilter(merged_data, filter_heart_disease),
                                         gender_filter)} :
           \E mapped \in
                 {[filtered EXCEPT !.rows =
                     [r \in DOMAIN @ |->
                        [@[r] EXCEPT ![ColIndex(filtered, "Heart Disease")] =
                                        HeartDiseaseMap(@)]]]} :
           \E group_stats \in
                 {[g \in GroupsPresent(mapped) |-> group_data(mapped, g)]} :
           LET present == DOMAIN group_stats
               described == SelectSeq(GroupNames, LAMBDA g : g \in present)
               test == BothGroupsExist(group_stats)
           IN out' = [NoOutput EXCEPT
                        !.handler = "summary_stats", !.input = input,
                        !.status = IF mapped.rows = <<>> THEN "no_data" ELSE "text",
                        !.steps = <<"merge", "disease_filter", "gender_filter">>
                                  \o [i \in DOMAIN described |-> "stats_dict"]
                                  \o (IF test THEN <<"ttest_ind", "cohen_d">>
                                      ELSE <<"insufficient">>)
                                  \o (IF mapped.rows = <<>> THEN <<"message">>
                                      ELSE <<>>),
                        !.merged_data = Records(merged_data),
                        !.cohort = Records(mapped),
                        !.stats = [g \in present |-> stats_dict(group_stats[g])],
                        !.group_stats = group_stats,
                        !.comparison = IF test THEN "computed" ELSE "insufficient",
                        !.cohen_d = IF test
                                    THEN cohen_d(group_stats["Disease"],
                                                 group_stats["No Disease"])
                                    ELSE FNan]
    /\ UNCHANGED <<variant, phase, nhanes_dict, csv_header, nhanes_biomarkers,
                   nhanes_labels, label_mapping>>

(***************************************************************************)
(* regression_plot of src/ShinyApp/apptest.py.                             *)
(***************************************************************************)
\* the check of the two selections left out
NeverDuplicate(x, y) == FALSE

\* selected_biomarker_x == selected_biomarker_y
DuplicateSelection(x, y) == x = y

regression_plot ==
    /\ variant = "basic"
    /\ phase = "ready"
    /\ out.handler = "none"
    /\ \E x \in BiomarkerChoices({"SEQN", "RIAGENDR"}),
          y \in BiomarkerChoices({"SEQN", "RIAGENDR"}),
          gender_filter \in GenderChoices,
          filter_heart_disease \in BOOLEAN :
        LET input == [biomarker_x |-> x, biomarker_y |-> y,
                      gender_filter |-> gender_filter,
                      age_group_filter |-> <<"All Ages">>,
                      filter_heart_disease |-> filter_heart_disease]
            needed == <<"SEQN", x, y, "RIAGENDR">>
        IN IF DuplicateSelection(x, y)
           THEN out' = [NoOutput EXCEPT !.handler = "regression_plot",
                                        !.input = input,
                                        !.status = "ValueError",
                                        !.steps = <<"validate">>]
           ELSE IF ~HasColumns(nhanes_biomarkers, Range(needed))
           THEN out' = [NoOutput EXCEPT !.handler = "regression_plot",
                                        !.input = input,
                                        !.status = "KeyError",
                                        !.steps = <<"validate", "merge">>]
           ELSE
           \E merged_data \in
                 {MergedData(needed,
                              (x :> "Biomarker X") @@ (y :> "Biomarker Y")
                                  @@ ("HeartDisease" :> "Heart Disease")
                                  @@ ("RIAGENDR" :> "Gender"))} :
           \E filtered \in {GenderFilter(DiseaseFilter(merged_data, filter_heart_disease),
                                        gender_filter)} :
              out' = [NoOutput EXCEPT
                        !.handler = "regression_plot", !.input = input,
                        !.status = "plotted",
                        !.steps = <<"validate", "merge", "disease_filter",
                                    "gender_filter", "lmplot">>,
                        !.merged_data = Records(merged_data),
                        !.cohort = Records(filtered)]
    /\ UNCHANGED <<variant, phase, nhanes_dict, csv_header, nhanes_biomarkers,
                   nhanes_labels, label_mapping>>

(***************************************************************************)
(* @output: the value a render function returned (or the error it raised)  *)
(* is handed to the page, and the request is over.                         *)
(***************************************************************************)
output ==
    /\ out.handler # "none"
    /\ out' = NoOutput
    /\ UNCHANGED <<variant, phase, nhanes_dict, csv_header, nhanes_biomarkers,
                   nhanes_labels, label_mapping>>

Next ==
    \/ label_mapping_load
    \/ ShinyApp_label_mapping_load
    \/ kde_plot
    \/ summary_stats
    \/ regression_plot
    \/ ShinyApp_kde_plot
    \/ output

Spec == Init /\ [][Next]_vars

(***************************************************************************)
(* What the properties below are stated with: the predicates of the        *)
(* filter pipeline written out, and the request's cohort computed from the *)
(* tables with them.                                                       *)
(***************************************************************************)
SixBins ==
    {<<"20", "30", 20, 30>>, <<"30", "40", 30, 40>>, <<"40", "50", 40, 50>>,
     <<"50", "60", 50, 60>>, <<"60", "70", 60, 70>>, <<"70", "80", 70, 80>>}

AgeKeeps(choice, age) ==
    \/ choice = <<"All Ages">>
    \/ \E bin \in SixBins :
          choice = <<bin[1], "ndash", bin[2]>> /\ bin[3] <= age /\ age < bin[4]

GenderKeeps(choice, code) ==
    \/ choice = "All"
    \/ choice = "Male" /\ code = 1
    \/ choice = "Female" /\ code = 2

DiseaseKeeps(enabled, indicator) == ~enabled \/ indicator = 1

Finished(handler) ==
    out.handler = handler /\ out.status \in {"plotted", "no_data", "text"}

SeqnOf(df) == Column(df, df.columns[1])
UniqueIds(ids) == \A i, j \in DOMAIN ids : ids[i] = ids[j] => i = j

\* the joined records of the request that pass every selected filter
PipelineCohort ==
    LET i == out.input
        joined == Records(MergedData(<<"SEQN", i.biomarker_x, "RIAGENDR", "RIDAGEYR">>,
                                     (i.biomarker_x :> "Biomarker X")))
    IN SelectSeq(joined, LAMBDA r :
            /\ AgeKeeps(i.age_group_filter, r["RIDAGEYR"])
            /\ DiseaseKeeps(i.filter_heart_disease, r["HeartDisease"])
            /\ GenderKeeps(i.gender_filter, r["RIAGENDR"]))

\* its records of one disease status that have a biomarker value
PipelineGroup(indicator) ==
    SelectSeq(PipelineCohort,
              LAMBDA r : r["HeartDisease"] = indicator /\ r["Biomarker X"] # NaN)

HasAgeColumn == "RIDAGEYR" \in Range(nhanes_biomarkers.columns)

(***************************************************************************)
(* C1.  The age filter of kde_plot keeps exactly the joined records with   *)
(* low <= age < high for the selected bin, and with "All Ages" it returns  *)
(* the joined cohort unchanged.                                            *)
(***************************************************************************)
AgeFilterHalfOpen ==
    (variant = "extended" /\ Finished("kde_plot")) =>
        out.aged = SelectSeq(out.merged_data,
                             LAMBDA r : AgeKeeps(out.input.age_group_filter,
                                                 r["RIDAGEYR"]))
        /\ (out.input.age_group_filter = <<"All Ages">> =>
                out.aged = out.merged_data)
        /\ \A r \in Range(out.merged_data) :
              r["RIDAGEYR"] = 80 /\ out.input.age_group_filter # <<"All Ages">>
                  => r \notin Range(out.aged)

\* bin 20-30 on a cohort with a subject aged 25, who survives, and a
\* subject aged 30, who does not
AgeFilterWitness ==
    /\ variant = "extended" /\ Finished("kde_plot")
    /\ out.input.age_group_filter = <<"20", "ndash", "30">>
    /\ \E r \in Range(out.merged_data) : r["RIDAGEYR"] = 30 /\ r \notin Range(out.aged)
    /\ \E r \in Range(out.aged) : r["RIDAGEYR"] = 25

(***************************************************************************)
(* C2.  The count summary_stats reports for a disease-status group is the  *)
(* number of joined records of the group with a biomarker value that pass  *)
(* the age, disease and gender filters of the request; a group without     *)
(* such a record is not reported.                                          *)
(***************************************************************************)
StatsCountOverPipelineCohort ==
    (Finished("summary_stats") /\ HasAgeColumn) =>
        \A g \in {1, 0} :
            LET name == HeartDiseaseMap(g)
                n == Len(PipelineGroup(g))
            IN IF n = 0 THEN name \notin DOMAIN out.stats
               ELSE name \in DOMAIN out.stats /\ out.stats[name].Count = n

(***************************************************************************)
(* C3.  With subject identifiers unique within each table, the joined      *)
(* cohort has exactly one record per identifier present in both tables:    *)
(* no more records than either table has, every record's identifier in     *)
(* both tables, subjects of one table only dropped.                        *)
(***************************************************************************)
InnerJoinOnePerSharedSubject ==
    LET bids == SeqnOf(nhanes_biomarkers)
        lids == SeqnOf(nhanes_labels)
        joined == [i \in DOMAIN out.merged_data |-> out.merged_data[i]["SEQN"]]
    IN (out.status \in {"plotted", "no_data", "text"}
        /\ UniqueIds(bids) /\ UniqueIds(lids)) =>
          /\ Len(joined) <= Len(bids) /\ Len(joined) <= Len(lids)
          /\ UniqueIds(joined)
          /\ Range(joined) = Range(bids) \cap Range(lids)
          /\ \A r \in Range(out.merged_data) : r["SEQN"] = r["id_client"]

\* a join that keeps one subject and drops a subject of one table only
InnerJoinWitness ==
    LET bids == SeqnOf(nhanes_biomarkers)
        lids == SeqnOf(nhanes_labels)
    IN /\ out.status \in {"plotted", "no_data", "text"}
       /\ UniqueIds(bids) /\ UniqueIds(lids)
       /\ Len(out.merged_data) = 1
       /\ Range(bids) \ Range(lids) # {}

(***************************************************************************)
(* C4.  regression_plot rejects a request whose X and Y biomarkers are the *)
(* same before it joins, filters or plots anything, and does not reject a  *)
(* request whose selections differ.                                        *)
(***************************************************************************)
DuplicateSelectionRejectedFirst ==
    out.handler = "regression_plot" =>
        IF out.input.biomarker_x = out.input.biomarker_y
        THEN /\ out.status = "ValueError"
             /\ out.steps = <<"validate">>
             /\ out.merged_data = <<>> /\ out.cohort = <<>>
        ELSE out.status # "ValueError"

\* the same biomarker on both axes over tables that do have a joint subject
DuplicateSelectionWitness ==
    /\ out.handler = "regression_plot"
    /\ out.input.biomarker_x = out.input.biomarker_y
    /\ out.status = "ValueError"
    /\ Range(SeqnOf(nhanes_biomarkers)) \cap Range(SeqnOf(nhanes_labels)) # {}

(***************************************************************************)
(* C5.  When no joined record passes the age, disease and gender filters   *)
(* of the request, kde_plot and summary_stats return their no-data result  *)
(* and compute or draw nothing for any group.                              *)
(***************************************************************************)
EmptyCohortReportedByEveryStage ==
    (variant = "extended" /\ HasAgeColumn
     /\ (Finished("kde_plot") \/ Finished("summary_stats"))
     /\ PipelineCohort = <<>>) =>
        /\ out.status = "no_data"
        /\ out.comparison \in {"none", "insufficient"}
        /\ Range(out.steps) \cap {"kdeplot", "stats_dict", "ttest_ind", "cohen_d"} = {}

(***************************************************************************)
(* C6.  summary_stats runs the test and computes the effect size exactly   *)
(* when both the Disease and the No Disease group of its filtered cohort   *)
(* have a biomarker value; otherwise the comparison is "insufficient data" *)
(* and no test or effect size is computed.                                 *)
(***************************************************************************)
StatsGroupHasValue(indicator) ==
    \E r \in Range(out.merged_data) :
        /\ r["Heart Disease"] = indicator
        /\ r["Biomarker X"] # NaN
        /\ DiseaseKeeps(out.input.filter_heart_disease, r["Heart Disease"])
        /\ GenderKeeps(out.input.gender_filter, r["Gender"])

NoSpread(x) == \A i, j \in DOMAIN x : x[i] = x[j]

CohenDUndefinedOrSigned ==
    (Finished("summary_stats") /\ out.comparison = "computed") =>
        LET x1 == out.group_stats["Disease"]
            x2 == out.group_stats["No Disease"]
        IN IF Len(x1) = 1 \/ Len(x2) = 1 \/ (NoSpread(x1) /\ NoSpread(x2))
           THEN out.cohen_d.k = "nan"
           ELSE /\ out.cohen_d.k = "ssq"
                /\ Sign(out.cohen_d.num) =
                     Sign(SumSeq(x1) * Len(x2) - SumSeq(x2) * Len(x1))

\* two groups of two values, the Disease mean below the No Disease mean
CohenDWitness ==
    /\ Finished("summary_stats") /\ out.comparison = "computed"
    /\ Len(out.group_stats["Disease"]) = 2
    /\ Len(out.group_stats["No Disease"]) = 2
    /\ out.cohen_d.k = "ssq" /\ out.cohen_d.num < 0

(***************************************************************************)
(* C8.  After the load-time rename the subject-identifier column, the      *)
(* gender column and, in the extended variant, the age column keep their   *)
(* codes whatever the dictionary holds, every other column with a          *)
(* dictionary entry carries a description of its code, and the load fails  *)
(* exactly when no column is named RIAGENDR after the rename.              *)
(***************************************************************************)
StructuralCodes ==
    IF variant = "extended" THEN {"SEQN", "RIAGENDR", "RIDAGEYR"}
    ELSE {"SEQN", "RIAGENDR"}

DescriptionsOf(code) ==
    {nhanes_dict[j].desc : j \in {k \in DOMAIN nhanes_dict : nhanes_dict[k].name = code}}

ProtectedColumnsKeepCodes ==
    phase # "boot" =>
        /\ Len(nhanes_biomarkers.columns) = Len(csv_header)
        /\ \A i \in DOMAIN csv_header :
              LET code == csv_header[i]
                  now == nhanes_biomarkers.columns[i]
              IN IF code \in StructuralCodes \/ DescriptionsOf(code) = {}
                 THEN now = code
                 ELSE now \in DescriptionsOf(code)
        /\ (phase = "failed") = ("RIAGENDR" \notin Range(nhanes_biomarkers.columns))

\* a dictionary with entries for the gender and the age code: both columns
\* keep their codes while the biomarker column is renamed
ProtectedColumnsWitness ==
    /\ phase = "ready" /\ variant = "extended"
    /\ DescriptionsOf("RIAGENDR") # {} /\ DescriptionsOf("RIDAGEYR") # {}
    /\ {"RIAGENDR", "RIDAGEYR"} \subseteq Range(nhanes_biomarkers.columns)
    /\ \E i \in DOMAIN csv_header :
          csv_header[i] = "LBXTC" /\ nhanes_biomarkers.columns[i] # "LBXTC"

(***************************************************************************)
(* C9.  The cohort a density plot is drawn from is the set of joined       *)
(* records that satisfy every selected predicate (age bin, indicator 1     *)
(* when the disease filter is on, gender code 1 for "Male" and 2 for       *)
(* "Female"), and the three filters give that set in whichever order they  *)
(* are applied.                                                            *)
(***************************************************************************)
FilterOrders ==
    {<<"age", "disease", "gender">>, <<"age", "gender", "disease">>,
     <<"disease", "age", "gender">>, <<"disease", "gender", "age">>,
     <<"gender", "age", "disease">>, <<"gender", "disease", "age">>}

ApplyFilter(name, df) ==
    IF name = "age" THEN AgeFilter(df, out.input.age_group_filter)
    ELSE IF name = "disease" THEN DiseaseFilter(df, out.input.filter_heart_disease)
    ELSE GenderFilter(df, out.input.gender_filter)

KdeMerged ==
    MergedData(IF variant = "extended"
               THEN <<"SEQN", out.input.biomarker_x, "RIAGENDR", "RIDAGEYR">>
               ELSE <<"SEQN", out.input.biomarker_x, "RIAGENDR">>,
               (out.input.biomarker_x :> "Biomarker X")
                   @@ ("HeartDisease" :> "Heart Disease") @@ ("RIAGENDR" :> "Gender"))

FilterOrderIrrelevant ==
    Finished("kde_plot") =>
        /\ Range(out.cohort) =
              {r \in Range(out.merged_data) :
                  /\ (variant = "extended" =>
                         AgeKeeps(out.input.age_group_filter, r["RIDAGEYR"]))
                  /\ DiseaseKeeps(out.input.filter_heart_disease, r["Heart Disease"])
                  /\ GenderKeeps(out.input.gender_filter, r["Gender"])}
        /\ \A order \in FilterOrders :
              Range(Records(ApplyFilter(order[3],
                                ApplyFilter(order[2],
                                    ApplyFilter(order[1], KdeMerged)))))
                 = Range(out.cohort)

\* all three filters selected, one of two joined subjects passing them
FilterOrderWitness ==
    /\ variant = "extended" /\ Finished("kde_plot")
    /\ out.input.age_group_filter # <<"All Ages">>
    /\ out.input.filter_heart_disease
    /\ out.input.gender_filter = "Female"
    /\ Len(out.merged_data) = 2
    /\ Len(out.cohort) = 1

(***************************************************************************)
(* C10.  With the disease filter enabled summary_stats never has a No      *)
(* Disease group: it runs no test, computes no effect size and ends with   *)
(* the insufficient-data outcome or the empty-cohort message.              *)
(***************************************************************************)
DiseaseFilterPrecludesTest ==
    (Finished("summary_stats") /\ out.input.filter_heart_disease) =>
        /\ "No Disease" \notin DOMAIN out.group_stats
        /\ "No Disease" \notin DOMAIN out.stats
        /\ out.comparison = "insufficient"
        /\ Range(out.steps) \cap {"ttest_ind", "cohen_d"} = {}
        /\ out.steps[Len(out.steps)] \in {"insufficient", "message"}

\* the filter enabled on tables with valued subjects of both statuses
DiseaseFilterWitness ==
    /\ Finished("summary_stats") /\ out.input.filter_heart_disease
    /\ "Disease" \in DOMAIN out.group_stats
    /\ \E r \in Range(out.merged_data) :
          r["Heart Disease"] = 0 /\ r["Biomarker X"] # NaN

====
